---- MODULE Spec2Model ----
(***************************************************************************)
(* State-machine model of the CRM AI backend: the per-user conversation    *)
(* memory of AIService (services/ai_service.py) and the request handlers   *)
(* of routes/ai_routes.py that read and write it.                          *)
(*                                                                         *)
(* Scheduling: every handler is an `async def` run on one event loop.  A   *)
(* handler runs without interruption between two suspension points (a      *)
(* `yield` of an async generator, an `await`).  query_ai and the clear     *)
(* handlers contain no suspension point, so each is one atomic action; a   *)
(* stream is one action per stretch of code between two suspension points. *)
(*                                                                         *)
(* Text is a sequence of one-character strings, so that strip() and        *)
(* split() are computed rather than assumed.                               *)
(***************************************************************************)
EXTENDS Integers, Sequences, FiniteSets, TLC

VARIABLES
    user_conversations,  \* AIService.user_conversations: user_id -> list of exchanges
    clock,               \* datetime.now(): the reading the next timestamp takes
    calls,               \* slot -> the call running or finished in it, or Idle
    hist,                \* history: user_id -> every exchange stored since its log was created
    budget,              \* calls that may still be admitted (keeps the model finite)
    db_conns             \* database connections that are open

vars == <<user_conversations, clock, calls, hist, budget, db_conns>>

----------------------------------------------------------------------------
(* Bounds of the model *)

\* Calls that may store an exchange, admitted in a run that starts from a filled store.
MaxAppends == 2

\* Successful asks in a run that starts from the empty store.
MaxAsks == 12

\* Fragments the incremental model API delivers in one stream.
MaxTokens == 1

----------------------------------------------------------------------------
(* Program constants *)

\* ai_service.py:163 `> 10`, :164 `[-10:]`; ai_routes.py:168-169
MaxExchanges == 10

\* ai_routes.py:37 and :94 `len(request.user_id) < 10`
MinUserIdLen == 10

\* ai_service.py:118 `conversation_history[-6:]`
HistoryWindow == 6

----------------------------------------------------------------------------
(* Inputs *)

U1 == "user-0001-aaaa"
U2 == "user-0002-bbbb"
ValidUserIds == {U1, U2}
UserIds == {U1, U2, "short"}

\* The user_ids the blocking ask is tried with.
AskUserIds == UserIds \cup {""}

\* The user_ids that open streams: the route validates, the service does not.
RouteStreamUserIds == {U1, "short"}
SvcStreamUserIds == {U1}

Questions == {"q1"}

\* Model completions: a blank one, and one with leading, doubled and trailing blanks.
Plain == <<"a">>
Blank == <<" ">>
Messy == <<" ", "a", " ", " ", "b", " ">>
Responses == {Blank, Messy}

\* Fragments of the incremental model API.
Fragments == { <<"a">>, <<" ">> }

Slots == {"s1", "s2"}

Idle == [pc |-> "idle", kind |-> "none"]

----------------------------------------------------------------------------
(* Text: str.strip(), str.split(), concatenation *)

IsSpace(c) == c \in {" ", "\n", "\t"}

RECURSIVE LStrip(_)
LStrip(s) == IF s = <<>> THEN s
             ELSE IF IsSpace(Head(s)) THEN LStrip(Tail(s)) ELSE s

RECURSIVE RStrip(_)
RStrip(s) == IF s = <<>> THEN s
             ELSE IF IsSpace(s[Len(s)]) THEN RStrip(SubSeq(s, 1, Len(s) - 1)) ELSE s

\* str.strip()
Strip(s) == RStrip(LStrip(s))

\* The first word of a text that starts with a non-blank character.
RECURSIVE FirstWord(_)
FirstWord(s) == IF s = <<>> \/ IsSpace(Head(s)) THEN <<>>
                ELSE <<Head(s)>> \o FirstWord(Tail(s))

\* str.split(): the maximal runs of non-blank characters, in order.
RECURSIVE Split(_)
Split(s) == LET t == LStrip(s) IN
            IF t = <<>> THEN <<>>
            ELSE LET w == FirstWord(t) IN
                 <<w>> \o Split(SubSeq(t, Len(w) + 1, Len(t)))

----------------------------------------------------------------------------
(* Data Access Gateway: AIService.get_user_data over a fixed database *)

ContactsTable ==
    << [id |-> 1, user_id |-> U1, name |-> "Ann"],
       [id |-> 2, user_id |-> U1, name |-> "Bob"],
       [id |-> 3, user_id |-> U2, name |-> "Cy"] >>

NotesTable ==
    << [id |-> 1, user_id |-> U1, title |-> "n1", contact_ids |-> <<1, 2, 99>>],
       [id |-> 2, user_id |-> U1, title |-> "n2", contact_ids |-> <<>>],
       [id |-> 3, user_id |-> U2, title |-> "n3", contact_ids |-> <<1, 3>>],
       [id |-> 4, user_id |-> U1, title |-> "n4", contact_ids |-> <<2, 1>>],
       [id |-> 5, user_id |-> U2, title |-> "n5", contact_ids |-> <<3, 3, 2, 98>>] >>

InSeq(x, s) == \E i \in 1..Len(s) : s[i] = x

\* Faulty variant: the query lacks `AND user_id = %s`.
ContactNamesAnyUser(contact_ids, user_id) ==
    LET rows == SelectSeq(ContactsTable, LAMBDA c : InSeq(c.id, contact_ids))
    IN  [i \in 1..Len(rows) |-> rows[i].name]

\* SELECT name FROM contacts WHERE id IN (...) AND user_id = %s
ContactNames(contact_ids, user_id) ==
    LET rows == SelectSeq(ContactsTable,
                          LAMBDA c : InSeq(c.id, contact_ids) /\ c.user_id = user_id)
    IN  [i \in 1..Len(rows) |-> rows[i].name]

\* get_user_data(user_id) when no query fails
get_user_data(user_id) ==
    LET contacts  == SelectSeq(ContactsTable, LAMBDA c : c.user_id = user_id)
        raw_notes == SelectSeq(NotesTable, LAMBDA n : n.user_id = user_id)
    IN  [contacts |-> contacts,
         notes    |-> [i \in 1..Len(raw_notes) |->
                         [id |-> raw_notes[i].id,
                          title |-> raw_notes[i].title,
                          contact_ids |-> raw_notes[i].contact_ids,
                          related_contacts |->
                              IF raw_notes[i].contact_ids # <<>>
                              THEN ContactNames(raw_notes[i].contact_ids, user_id)
                              ELSE <<>>]]]

\* The data of a call whose fetch did not return.
NoData == [contacts |-> <<>>, notes |-> <<>>, fetched |-> FALSE]

\* contacts, notes as a call holds them after get_user_data returned.
Fetched(data) == [contacts |-> data.contacts, notes |-> data.notes, fetched |-> TRUE]

\* get_db_connection(): psycopg2.connect opens a connection of its own for the call.
Acquire(open) == open + 1

\* Faulty variant: conn.close() is the last statement of the try block.
ConnClosedOnReturnOnly(raised) == ~raised

\* get_user_data 27, 76-77: `try: ... finally: conn.close()` closes the connection
\* whether the body returned or a query raised.
ConnClosedAfter(raised) == TRUE

\* The connections open when the body of get_user_data has been left.
Release(open, raised) == IF ConnClosedAfter(raised) THEN open - 1 ELSE open

\* The connections open after a whole call of get_user_data.
AfterGetUserData(open, raised) == Release(Acquire(open), raised)

DataSummary(data) ==
    [contacts_count |-> Len(data.contacts), notes_count |-> Len(data.notes)]

----------------------------------------------------------------------------
(* Conversation memory: the reads and writes of user_conversations *)

HasLog(uc, user_id) == user_id \in DOMAIN uc

\* build_prompt, lines 108-110: the log is created empty on first reference.
BuildPromptStore(uc, user_id) ==
    IF user_id \notin DOMAIN uc
    THEN [v \in DOMAIN uc \cup {user_id} |-> IF v = user_id THEN <<>> ELSE uc[v]]
    ELSE uc

Min(a, b) == IF a < b THEN a ELSE b

\* The last n elements of a sequence (all of it when it is shorter).
LastN(seq, n) == SubSeq(seq, Len(seq) - Min(Len(seq), n) + 1, Len(seq))

\* build_prompt 116-121: two lines, `Human: ...` and `AI: ...`, for each item of
\* conversation_history[-6:], in list order.
RECURSIVE HistoryLines(_)
HistoryLines(items) ==
    IF items = <<>> THEN <<>>
    ELSE << <<"Human", Head(items).question>>, <<"AI", Head(items).answer>> >>
             \o HistoryLines(Tail(items))

\* The prompt of a call that composed none.
NoPrompt == [composed |-> FALSE]

\* build_prompt(user_id, question, contacts, notes): the store it leaves and the
\* parts of the prompt it returns; the `Previous conversation:` header is there
\* when history_text is not empty (line 138).
build_prompt(uc, user_id, question, data) ==
    LET store == BuildPromptStore(uc, user_id)
        history == HistoryLines(LastN(store[user_id], HistoryWindow))
    IN  [store  |-> store,
         prompt |-> [composed |-> TRUE,
                     history  |-> history,
                     header   |-> history # <<>>,
                     question |-> question]]

\* The exchange stored for a question and a model response.
Exchange(question, response, now) ==
    [question |-> question, answer |-> Strip(response), timestamp |-> now]

\* Faulty variant: the length test is off by one.
KeepLastOffByOne(log) ==
    IF Len(log) > MaxExchanges + 1
    THEN SubSeq(log, Len(log) - MaxExchanges + 1, Len(log))
    ELSE log

\* Faulty variant: the slice keeps the first ten, `log[:10]`.
KeepFirst(log) ==
    IF Len(log) > MaxExchanges THEN SubSeq(log, 1, MaxExchanges) ELSE log

\* `if len(log) > 10: log = log[-10:]`
KeepLast(log) ==
    IF Len(log) > MaxExchanges
    THEN SubSeq(log, Len(log) - MaxExchanges + 1, Len(log))
    ELSE log

\* ask_question 155-164, ask_question_stream 207-216: append, then truncate.
\* Only used where user_id has a log (the subscript raises KeyError otherwise).
StoreExchange(uc, user_id, ex) ==
    [uc EXCEPT ![user_id] = KeepLast(Append(@, ex))]

\* Faulty variant: the membership test of line 158 is inverted, so a log that exists is
\* replaced by a fresh one before the append.
RouteStoreExchangeReset(uc, user_id, ex) ==
    [v \in DOMAIN uc \cup {user_id} |-> IF v = user_id THEN <<ex>> ELSE uc[v]]

\* generate_ai_stream 157-169: create the log if absent, append, truncate.
RouteStoreExchange(uc, user_id, ex) ==
    StoreExchange(BuildPromptStore(uc, user_id), user_id, ex)

\* AIService.clear_user_memory: the value returned, and the store left behind.
ClearReturn(uc, user_id) == user_id \in DOMAIN uc

\* Faulty variant: the log is emptied, `user_conversations[user_id] = []`, not deleted.
ClearStoreEmptied(uc, user_id) ==
    IF user_id \in DOMAIN uc
    THEN [uc EXCEPT ![user_id] = <<>>]
    ELSE uc

\* Faulty variant: the whole store is emptied, `self.user_conversations.clear()`.
ClearStoreAllUsers(uc, user_id) ==
    IF user_id \in DOMAIN uc
    THEN <<>>
    ELSE uc

ClearStore(uc, user_id) ==
    IF user_id \in DOMAIN uc
    THEN [v \in DOMAIN uc \ {user_id} |-> uc[v]]
    ELSE uc

\* History bookkeeping that goes with a store update.
HistAppend(h, user_id, ex) == [h EXCEPT ![user_id] = Append(@, ex)]
HistReset(h, user_id) == [h EXCEPT ![user_id] = <<>>]

----------------------------------------------------------------------------
(* Calls: a slot holds the call running in it, then its finished response *)

\* A slot is free when no call is suspended in it.
Running(s) == calls[s].pc \notin {"idle", "done", "cancelled"}

\* Where a call fails: nowhere, in get_user_data, while build_prompt formats the
\* data (lines 83-106, before the memory is read), or in llm.invoke.
Faults == {"none", "fetch", "prompt", "model"}

\* The faults the blocking ask meets while streams run beside it.
AskFaults == {"none", "fetch", "model"}

\* Faulty variant: only the empty user_id is rejected.
ValidUserIdNonEmpty(user_id) == ~(user_id = "")

\* `not request.user_id or len(request.user_id) < 10` is the rejection test.
ValidUserId(user_id) == ~(user_id = "" \/ Len(user_id) < MinUserIdLen)

----------------------------------------------------------------------------
(* Blocking ask: AIService.ask_question and the query_ai route *)

Failure(msg) == [success |-> FALSE, error |-> msg]

\* Faulty variant: the handler lets the exception go on to the caller.
ExceptReraise(msg) == [raised |-> msg]

\* ask_question lines 175-179: `except Exception as e` returns a failure result.
ExceptHandler(msg) == Failure(msg)

\* A result that reports success (an exception that escaped reports nothing).
Succeeded(result) == "success" \in DOMAIN result /\ result.success

\* ask_question(user_id, question): the result returned, the store left behind and
\* the calls made, given where the call fails and what the model answers.
ask_question(uc, now, user_id, question, fault, response) ==
    IF fault = "fetch"
    THEN [store |-> uc, result |-> ExceptHandler("data access"),
          data |-> NoData, prompt |-> NoPrompt, db_calls |-> 1, llm_calls |-> 0]
    ELSE LET data == Fetched(get_user_data(user_id)) IN
         IF fault = "prompt"
         THEN [store |-> uc, result |-> ExceptHandler("prompt"),
               data |-> data, prompt |-> NoPrompt, db_calls |-> 1, llm_calls |-> 0]
         ELSE LET built == build_prompt(uc, user_id, question, data)
                  prompted == built.store
              IN
              IF fault = "model"
              THEN [store |-> prompted, result |-> ExceptHandler("model"),
                    data |-> data, prompt |-> built.prompt,
                    db_calls |-> 1, llm_calls |-> 1]
              ELSE IF ~HasLog(prompted, user_id)
              THEN [store |-> prompted, result |-> ExceptHandler("KeyError"),
                    data |-> data, prompt |-> built.prompt,
                    db_calls |-> 1, llm_calls |-> 1]
              ELSE [store |-> StoreExchange(prompted, user_id,
                                            Exchange(question, response, now)),
                    result |-> [success |-> TRUE,
                                response |-> Strip(response),
                                data_summary |-> DataSummary(data)],
                    data |-> data, prompt |-> built.prompt,
                    db_calls |-> 1, llm_calls |-> 1]

\* The response of query_ai: 400 on a rejected user_id, else 200 or 500 by the
\* result (lines 46-58), and 500 when an exception reaches line 63.
AskCall(user_id, question, status, fault, a) ==
    [pc |-> "done", kind |-> "ask", user_id |-> user_id, query |-> question,
     at |-> clock,
     status |-> status, result |-> a.result, fault |-> fault,
     data |-> a.data, prompt |-> a.prompt,
     db_calls |-> a.db_calls, llm_calls |-> a.llm_calls]

\* query_ai lines 33-68: what the handler does to the state from its entry to
\* its response.
AskEffect(s, user_id, question, fault, response) ==
    /\ IF ~ValidUserId(user_id)
       THEN /\ calls' = [calls EXCEPT ![s] =
                  AskCall(user_id, question, 400, "none",
                          [result |-> Failure("Invalid user_id format"),
                           data |-> NoData, prompt |-> NoPrompt,
                           db_calls |-> 0, llm_calls |-> 0])]
            /\ UNCHANGED <<user_conversations, clock, hist, budget>>
       ELSE LET a == ask_question(user_conversations, clock, user_id, question,
                                  fault, response)
            IN  /\ calls' = [calls EXCEPT ![s] =
                      AskCall(user_id, question,
                              IF Succeeded(a.result) THEN 200 ELSE 500, fault, a)]
                /\ user_conversations' = a.store
                /\ IF Succeeded(a.result)
                   THEN /\ clock' = clock + 1
                        /\ budget' = budget - 1
                        /\ hist' = HistAppend(hist, user_id,
                                              Exchange(question, response, clock))
                   ELSE UNCHANGED <<clock, budget, hist>>

\* POST /ai/query: the handler has no suspension point, so it is one step.
QueryAi(s, user_id, question, fault, response) ==
    /\ ~Running(s)
    /\ budget > 0
    /\ AskEffect(s, user_id, question, fault, response)
    /\ db_conns' = IF ValidUserId(user_id)
                   THEN AfterGetUserData(db_conns, fault = "fetch")
                   ELSE db_conns

----------------------------------------------------------------------------
(* Clearing the memory: AIService.clear_user_memory and the clear route *)

\* The attributes AIService.__init__ sets.
AIServiceAttrs == {"llm", "user_conversations"}

\* AIService.clear_user_memory(user_id)
ClearUserMemory(s, user_id) ==
    /\ ~Running(s)
    /\ calls' = [calls EXCEPT ![s] =
          [pc |-> "done", kind |-> "clear", user_id |-> user_id,
           result |-> ClearReturn(user_conversations, user_id)]]
    /\ user_conversations' = ClearStore(user_conversations, user_id)
    /\ hist' = IF HasLog(user_conversations, user_id)
               THEN HistReset(hist, user_id) ELSE hist
    /\ UNCHANGED <<clock, budget>>
    /\ UNCHANGED db_conns

\* The attribute of ai_service the clear route reads.
ClearRouteAttr == "user_memories"

\* POST /ai/clear-memory/{user_id}: reading an attribute AIService does not have
\* raises AttributeError, which the handler turns into a 500 response.
ClearMemoryRoute(s, user_id) ==
    /\ ~Running(s)
    /\ IF ClearRouteAttr \notin AIServiceAttrs
       THEN /\ calls' = [calls EXCEPT ![s] =
                  [pc |-> "done", kind |-> "clear_route", user_id |-> user_id,
                   status |-> 500]]
            /\ UNCHANGED <<user_conversations, hist>>
       ELSE /\ calls' = [calls EXCEPT ![s] =
                  [pc |-> "done", kind |-> "clear_route", user_id |-> user_id,
                   status |-> 200]]
            /\ user_conversations' = ClearStore(user_conversations, user_id)
            /\ hist' = IF HasLog(user_conversations, user_id)
                       THEN HistReset(hist, user_id) ELSE hist
    /\ UNCHANGED <<clock, budget>>
    /\ UNCHANGED db_conns

----------------------------------------------------------------------------
(* Streaming calls: state of one call, and the events it has yielded *)

NewStream(kind, user_id, question) ==
    [pc |-> "new", kind |-> kind, user_id |-> user_id, query |-> question,
     at |-> clock,             \* the clock reading when the call began
     events |-> <<>>,          \* the events yielded so far, in order
     full_response |-> <<>>,   \* the local full_response
     words |-> <<>>,           \* service stream: the words not yet yielded
     response |-> <<>>,        \* service stream: the completion llm.invoke returned
     tokens |-> 0,             \* token events yielded
     db_calls |-> 0, llm_calls |-> 0,
     fetch_failed |-> FALSE, model_failed |-> FALSE]

Status(name) == [event |-> "status", data |-> name]
DataLoaded(summary) == [event |-> "status", data |-> <<"data_loaded", summary>>]
Token(text) == [event |-> "token", data |-> text]
Complete(text, summary) == [event |-> "complete", data |-> <<text, summary>>]
Error(msg) == [event |-> "error", data |-> msg]

Emit(st, ev) == [st EXCEPT !.events = Append(@, ev)]

----------------------------------------------------------------------------
(* POST /ai/query/stream: query_ai_stream.generate_ai_stream *)

\* ai_service.stream_from_ollama_direct(prompt): what the incremental model API can
\* deliver next after n fragments: one more fragment, the end of the generation, or
\* a failure.
stream_from_ollama_direct(n) ==
    {[kind |-> "token", token |-> f] : f \in IF n < MaxTokens THEN Fragments ELSE {}}
        \cup {[kind |-> "end"], [kind |-> "error"]}

\* Lines 91-105: validation, then the first status event.
StreamBegin(s, user_id, question) ==
    /\ ~Running(s)
    /\ budget > 0
    /\ IF ~ValidUserId(user_id)
       THEN /\ calls' = [calls EXCEPT ![s] =
                  [Emit(NewStream("route", user_id, question),
                        Error("Invalid user_id format")) EXCEPT !.pc = "done"]]
            /\ UNCHANGED budget
       ELSE /\ calls' = [calls EXCEPT ![s] =
                  [Emit(NewStream("route", user_id, question),
                        Status("processing")) EXCEPT !.pc = "processing"]]
            /\ budget' = budget - 1
    /\ UNCHANGED <<user_conversations, clock, hist>>
    /\ UNCHANGED db_conns

\* Faulty variant: the `return` of line 123 is missing, so the stream goes on after the
\* error event.
StreamFetchNoReturn(s, fault) ==
    /\ calls[s].pc = "processing"
    /\ LET st == calls[s] IN
       calls' = [calls EXCEPT ![s] =
          IF fault = "fetch"
          THEN [Emit(st, Error("Failed to load user data"))
                    EXCEPT !.pc = "data_loaded", !.db_calls = 1, !.fetch_failed = TRUE]
          ELSE [Emit(st, DataLoaded(DataSummary(get_user_data(st.user_id))))
                    EXCEPT !.pc = "data_loaded", !.db_calls = 1]]
    /\ UNCHANGED <<user_conversations, clock, hist, budget>>
    /\ db_conns' = AfterGetUserData(db_conns, fault = "fetch")

\* Lines 107-123: the data fetch, from the call of get_user_data to the yield.
StreamFetchEffect(s, fault) ==
    /\ LET st == calls[s] IN
       calls' = [calls EXCEPT ![s] =
          IF fault = "fetch"
          THEN [Emit(st, Error("Failed to load user data"))
                    EXCEPT !.pc = "done", !.db_calls = 1, !.fetch_failed = TRUE]
          ELSE [Emit(st, DataLoaded(DataSummary(get_user_data(st.user_id))))
                    EXCEPT !.pc = "data_loaded", !.db_calls = 1]]
    /\ UNCHANGED <<user_conversations, clock, hist, budget>>

\* The stretch from the first status event to the next yield.
StreamFetch(s, fault) ==
    /\ calls[s].pc = "processing"
    /\ StreamFetchEffect(s, fault)
    /\ db_conns' = AfterGetUserData(db_conns, fault = "fetch")

\* Lines 125-129.
StreamThinking(s) ==
    /\ calls[s].pc = "data_loaded"
    /\ calls' = [calls EXCEPT ![s] =
          [Emit(calls[s], Status("thinking")) EXCEPT !.pc = "thinking"]]
    /\ UNCHANGED <<user_conversations, clock, hist, budget>>
    /\ UNCHANGED db_conns

\* Lines 131-141: build_prompt, then the model stream is opened and awaited.
StreamPrompt(s, fault) ==
    /\ calls[s].pc = "thinking"
    /\ LET st == calls[s] IN
       IF fault = "prompt"
       THEN /\ calls' = [calls EXCEPT ![s] =
                  [Emit(st, Error("Unexpected error")) EXCEPT !.pc = "done"]]
            /\ UNCHANGED user_conversations
       ELSE /\ user_conversations' =
                  build_prompt(user_conversations, st.user_id, st.query,
                               get_user_data(st.user_id)).store
            /\ calls' = [calls EXCEPT ![s] =
                  [st EXCEPT !.pc = "generating", !.llm_calls = 1]]
    /\ UNCHANGED <<clock, hist, budget>>
    /\ UNCHANGED db_conns

\* Lines 141-188: one step of the `async for`, up to the next yield.
StreamNext(s, out) ==
    /\ calls[s].pc = "generating"
    /\ out \in stream_from_ollama_direct(calls[s].tokens)
    /\ LET st == calls[s]
           ex == Exchange(st.query, st.full_response, clock)
       IN
       CASE out.kind = "token" ->
              /\ calls' = [calls EXCEPT ![s] =
                    [Emit(st, Token(out.token))
                        EXCEPT !.full_response = @ \o out.token,
                               !.tokens = @ + 1]]
              /\ UNCHANGED <<user_conversations, clock, hist>>
         [] out.kind = "error" ->
              /\ calls' = [calls EXCEPT ![s] =
                    [Emit(st, Error("AI processing failed"))
                        EXCEPT !.pc = "done", !.model_failed = TRUE]]
              /\ UNCHANGED <<user_conversations, clock, hist>>
         [] out.kind = "end" ->
              /\ user_conversations' =
                    RouteStoreExchange(user_conversations, st.user_id, ex)
              /\ clock' = clock + 1
              /\ hist' = HistAppend(hist, st.user_id, ex)
              /\ calls' = [calls EXCEPT ![s] =
                    [Emit(st, Complete(Strip(st.full_response),
                                       DataSummary(get_user_data(st.user_id))))
                        EXCEPT !.pc = "done"]]
    /\ UNCHANGED budget
    /\ UNCHANGED db_conns

----------------------------------------------------------------------------
(* AIService.ask_question_stream, consumed as an async generator *)

\* Faulty variant: the answer stored is the reassembled full_response.strip(), not
\* response.strip().
SvcFinishStoresJoined(s) ==
    LET st == calls[s]
        ex == Exchange(st.query, st.full_response, clock)
    IN  IF ~HasLog(user_conversations, st.user_id)
        THEN /\ calls' = [calls EXCEPT ![s] =
                   [Emit(st, Error("KeyError")) EXCEPT !.pc = "done"]]
             /\ UNCHANGED <<user_conversations, clock, hist>>
        ELSE /\ user_conversations' =
                   StoreExchange(user_conversations, st.user_id, ex)
             /\ clock' = clock + 1
             /\ hist' = HistAppend(hist, st.user_id, ex)
             /\ calls' = [calls EXCEPT ![s] =
                   [Emit(st, Complete(Strip(st.full_response),
                                      DataSummary(get_user_data(st.user_id))))
                       EXCEPT !.pc = "done"]]

\* Lines 207-226, reached when every word has been yielded: the subscript of
\* line 208 raises KeyError when the user's log is gone, and the handler of line
\* 228 turns that into an error event.
SvcFinish(s) ==
    LET st == calls[s]
        ex == Exchange(st.query, st.response, clock)
    IN  IF ~HasLog(user_conversations, st.user_id)
        THEN /\ calls' = [calls EXCEPT ![s] =
                   [Emit(st, Error("KeyError")) EXCEPT !.pc = "done"]]
             /\ UNCHANGED <<user_conversations, clock, hist>>
        ELSE /\ user_conversations' =
                   StoreExchange(user_conversations, st.user_id, ex)
             /\ clock' = clock + 1
             /\ hist' = HistAppend(hist, st.user_id, ex)
             /\ calls' = [calls EXCEPT ![s] =
                   [Emit(st, Complete(Strip(st.full_response),
                                      DataSummary(get_user_data(st.user_id))))
                       EXCEPT !.pc = "done"]]

\* Lines 198-203: the next word is added to full_response and yielded.
SvcYieldWord(st) ==
    LET chunk == Head(st.words) \o <<" ">> IN
    [Emit(st, Token(chunk))
        EXCEPT !.pc = "token", !.words = Tail(@),
               !.full_response = @ \o chunk, !.tokens = @ + 1]

\* First pull: lines 183-203 up to the first yield.
SvcStreamBegin(s, user_id, question, fault, response) ==
    /\ ~Running(s)
    /\ budget > 0
    /\ budget' = budget - 1
    /\ LET new == NewStream("service", user_id, question) IN
       IF fault \in {"fetch", "prompt"}
       THEN /\ calls' = [calls EXCEPT ![s] =
                  [Emit(new, Error(fault))
                      EXCEPT !.pc = "done", !.db_calls = 1,
                             !.fetch_failed = (fault = "fetch")]]
            /\ UNCHANGED <<user_conversations, clock, hist>>
       ELSE IF fault = "model"
       THEN /\ user_conversations' = BuildPromptStore(user_conversations, user_id)
            /\ calls' = [calls EXCEPT ![s] =
                  [Emit(new, Error("model"))
                      EXCEPT !.pc = "done", !.db_calls = 1, !.llm_calls = 1,
                             !.model_failed = TRUE]]
            /\ UNCHANGED <<clock, hist>>
       ELSE LET st == [new EXCEPT !.db_calls = 1, !.llm_calls = 1,
                                  !.response = response,
                                  !.words = Split(response)]
                ex == Exchange(question, response, clock)
            IN  IF st.words # <<>>
                THEN /\ user_conversations' =
                           BuildPromptStore(user_conversations, user_id)
                     /\ calls' = [calls EXCEPT ![s] = SvcYieldWord(st)]
                     /\ UNCHANGED <<clock, hist>>
                ELSE /\ user_conversations' =
                           StoreExchange(BuildPromptStore(user_conversations, user_id),
                                         user_id, ex)
                     /\ clock' = clock + 1
                     /\ hist' = HistAppend(hist, user_id, ex)
                     /\ calls' = [calls EXCEPT ![s] =
                           [Emit(st, Complete(Strip(st.full_response),
                                              DataSummary(get_user_data(user_id))))
                               EXCEPT !.pc = "done"]]
    /\ db_conns' = AfterGetUserData(db_conns, fault = "fetch")

\* Faulty variant: the words are produced by a task of their own, which goes on
\* after the consumer has stopped pulling.
SvcStreamNextDetached(s) ==
    /\ calls[s].kind = "service"
    /\ calls[s].pc \in {"token", "cancelled"}
    /\ IF calls[s].words # <<>>
       THEN /\ calls' = [calls EXCEPT ![s] = SvcYieldWord(calls[s])]
            /\ UNCHANGED <<user_conversations, clock, hist>>
       ELSE calls[s].pc = "token" /\ SvcFinish(s)
    /\ UNCHANGED budget
    /\ UNCHANGED db_conns

\* A later pull: after the pacing sleep, the next word or the end of the loop.
SvcStreamNext(s) ==
    /\ calls[s].pc = "token"
    /\ IF calls[s].words # <<>>
       THEN /\ calls' = [calls EXCEPT ![s] = SvcYieldWord(calls[s])]
            /\ UNCHANGED <<user_conversations, clock, hist>>
       ELSE SvcFinish(s)
    /\ UNCHANGED budget
    /\ UNCHANGED db_conns

----------------------------------------------------------------------------
(* The consumer of a stream *)

\* Faulty variant: closing the generator runs a handler that stores what has
\* been generated so far.
StreamCancelStoresPartial(s) ==
    LET st == calls[s]
        ex == Exchange(st.query, st.full_response, clock)
    IN  /\ Running(s)
        /\ calls' = [calls EXCEPT ![s] = [@ EXCEPT !.pc = "cancelled"]]
        /\ user_conversations' =
               RouteStoreExchange(user_conversations, st.user_id, ex)
        /\ clock' = clock + 1
        /\ hist' = HistAppend(hist, st.user_id, ex)
        /\ UNCHANGED budget
        /\ UNCHANGED db_conns

\* The consumer stops pulling: the generator is closed where it is suspended.
StreamCancel(s) ==
    /\ Running(s)
    /\ calls' = [calls EXCEPT ![s] = [@ EXCEPT !.pc = "cancelled"]]
    /\ UNCHANGED <<user_conversations, clock, hist, budget>>
    /\ UNCHANGED db_conns

----------------------------------------------------------------------------
(* Specifications *)

\* A log of n exchanges as n successful asks leave it, the first at time `first`.
Prefill(n, first) ==
    [i \in 1..n |-> Exchange("q1", Plain, first + i - 1)]

\* After construction the store is empty.
InitEmpty ==
    /\ user_conversations = <<>>
    /\ clock = 0
    /\ calls = [s \in Slots |-> Idle]
    /\ hist = [u \in AskUserIds |-> <<>>]
    /\ budget = MaxAsks
    /\ db_conns = 0

\* A store that earlier asks of U1 have filled to one below the cap, or not.
Init ==
    \E present \in SUBSET {U1} :
        LET len == [u \in ValidUserIds |->
                       IF u \in present THEN MaxExchanges - 1 ELSE 0]
            log == [u \in ValidUserIds |->
                       Prefill(len[u], IF u = U1 THEN 0 ELSE len[U1])]
        IN  /\ user_conversations = [u \in present |-> log[u]]
            /\ clock = len[U1] + len[U2]
            /\ calls = [s \in Slots |-> Idle]
            /\ hist = [u \in AskUserIds |-> IF u \in present THEN log[u] ELSE <<>>]
            /\ budget = MaxAppends
            /\ db_conns = 0

Next ==
    \/ \E s \in Slots, u \in UserIds, q \in Questions, f \in AskFaults :
           QueryAi(s, u, q, f, Messy)
    \/ \E s \in Slots, u \in ValidUserIds : ClearUserMemory(s, u)
    \/ \E s \in Slots : ClearMemoryRoute(s, U1)
    \/ \E s \in Slots, u \in RouteStreamUserIds, q \in Questions : StreamBegin(s, u, q)
    \/ \E s \in Slots, f \in {"none", "fetch"} : StreamFetch(s, f)
    \/ \E s \in Slots : StreamThinking(s)
    \/ \E s \in Slots, f \in {"none", "prompt"} : StreamPrompt(s, f)
    \/ \E s \in Slots, out \in stream_from_ollama_direct(0) : StreamNext(s, out)
    \/ \E s \in Slots, u \in SvcStreamUserIds, q \in Questions, f \in Faults,
          r \in Responses :
           SvcStreamBegin(s, u, q, f, r)
    \/ \E s \in Slots : SvcStreamNext(s)

Spec == Init /\ [][Next]_vars

\* Asks and streams only: no call clears the memory.
NextNoClear ==
    \/ \E s \in Slots, u \in UserIds, q \in Questions, f \in AskFaults :
           QueryAi(s, u, q, f, Messy)
    \/ \E s \in Slots, u \in RouteStreamUserIds, q \in Questions : StreamBegin(s, u, q)
    \/ \E s \in Slots, f \in {"none", "fetch"} : StreamFetch(s, f)
    \/ \E s \in Slots : StreamThinking(s)
    \/ \E s \in Slots, f \in {"none", "prompt"} : StreamPrompt(s, f)
    \/ \E s \in Slots, out \in stream_from_ollama_direct(0) : StreamNext(s, out)
    \/ \E s \in Slots, u \in SvcStreamUserIds, q \in Questions, f \in Faults,
          r \in Responses :
           SvcStreamBegin(s, u, q, f, r)
    \/ \E s \in Slots : SvcStreamNext(s)

SpecNoClear == Init /\ [][NextNoClear]_vars

\* The same calls, with consumers that may stop pulling.
NextCancel ==
    \/ Next
    \/ \E s \in Slots : StreamCancel(s)

SpecCancel == Init /\ [][NextCancel]_vars

\* Consecutive asks on the store as constructed.
NextAsk ==
    \E u \in AskUserIds, f \in Faults : QueryAi("s1", u, "q1", f, Plain)

SpecAsk == InitEmpty /\ [][NextAsk]_vars

\* The event loop.  get_user_data (psycopg2) and llm.invoke are synchronous calls
\* made inside `async def` handlers: from the call to its return the handler
\* holds the one thread of the loop.  The specification below shows these waits
\* as states of their own.
Waiting(s) == calls[s].pc \in {"in_get_user_data", "in_llm_invoke"}

\* No handler is inside a synchronous call, so the loop can run a handler.
LoopFree == \A s \in Slots : ~Waiting(s)

\* query_ai is scheduled and runs up to the query of get_user_data (line 44,
\* ask_question line 147).
AskEnter(s, user_id, question) ==
    /\ LoopFree
    /\ ~Running(s)
    /\ budget > 0
    /\ ValidUserId(user_id)
    /\ calls' = [calls EXCEPT ![s] =
          [pc |-> "in_get_user_data", kind |-> "ask", user_id |-> user_id,
           query |-> question, at |-> clock]]
    /\ UNCHANGED <<user_conversations, clock, hist, budget>>
    /\ db_conns' = Acquire(db_conns)

\* get_user_data returns or raises; on return the handler goes on to
\* llm.invoke (line 153).
AskFetched(s, fault) ==
    /\ calls[s].kind = "ask"
    /\ calls[s].pc = "in_get_user_data"
    /\ IF fault = "fetch"
       THEN AskEffect(s, calls[s].user_id, calls[s].query, "fetch", <<>>)
       ELSE /\ calls' = [calls EXCEPT ![s] = [@ EXCEPT !.pc = "in_llm_invoke"]]
            /\ UNCHANGED <<user_conversations, clock, hist, budget>>
    /\ db_conns' = Release(db_conns, fault = "fetch")

\* llm.invoke returns or raises, and the handler runs to its response.
AskReturn(s, fault, response) ==
    /\ calls[s].kind = "ask"
    /\ calls[s].pc = "in_llm_invoke"
    /\ AskEffect(s, calls[s].user_id, calls[s].query, fault, response)
    /\ UNCHANGED db_conns

\* generate_ai_stream is resumed after its first yield and calls get_user_data
\* (line 109).
StreamFetchEnter(s) ==
    /\ LoopFree
    /\ calls[s].kind = "route"
    /\ calls[s].pc = "processing"
    /\ calls' = [calls EXCEPT ![s] = [@ EXCEPT !.pc = "in_get_user_data"]]
    /\ UNCHANGED <<user_conversations, clock, hist, budget>>
    /\ db_conns' = Acquire(db_conns)

\* get_user_data returns or raises, and the generator runs to its next yield.
StreamFetchReturn(s, fault) ==
    /\ calls[s].kind = "route"
    /\ calls[s].pc = "in_get_user_data"
    /\ StreamFetchEffect(s, fault)
    /\ db_conns' = Release(db_conns, fault = "fetch")

\* A step of the stream suspended in slot s, which the loop runs when it is free.
LoopStreamStep(s) ==
    \/ StreamFetchEnter(s)
    \/ LoopFree /\ StreamThinking(s)
    \/ LoopFree /\ \E f \in {"none", "prompt"} : StreamPrompt(s, f)
    \/ LoopFree /\ \E out \in stream_from_ollama_direct(0) : StreamNext(s, out)

\* Asks of one user and streams of another on one event loop.
NextLoop ==
    \/ \E s \in Slots, q \in Questions : AskEnter(s, U2, q)
    \/ \E s \in Slots, f \in {"none", "fetch"} : AskFetched(s, f)
    \/ \E s \in Slots, f \in {"none", "model"} : AskReturn(s, f, Messy)
    \/ \E s \in Slots, q \in Questions : LoopFree /\ StreamBegin(s, U1, q)
    \/ \E s \in Slots, f \in {"none", "fetch"} : StreamFetchReturn(s, f)
    \/ \E s \in Slots : LoopStreamStep(s)

SpecLoop == Init /\ [][NextLoop]_vars

TypeOK ==
    /\ db_conns \in Nat
    /\ DOMAIN user_conversations \subseteq AskUserIds
    /\ clock \in Nat
    /\ budget \in Nat

----------------------------------------------------------------------------
(* Properties *)

\* C1: in every reachable state, whatever asks, streams and clears have run and
\* however they interleave, every stored conversation log holds at most ten
\* exchanges.
C1_LogBounded ==
    \A u \in DOMAIN user_conversations : Len(user_conversations[u]) <= 10

\* C1 witness: a log is full after an eviction (more was stored than it holds).
C1_Witness ==
    \E u \in DOMAIN user_conversations :
        /\ Len(user_conversations[u]) = 10
        /\ Len(hist[u]) > 10

\* C2: on the store as constructed, after N successful asks of a user the log has
\* min(N, 10) entries, and they are the last min(N, 10) exchanges asked, in the
\* order asked: the oldest are the ones evicted, the newest is present.
C2_LastTenInOrder ==
    \A u \in AskUserIds :
        LET N == Len(hist[u]) IN
        /\ N > 0 => u \in DOMAIN user_conversations
        /\ u \in DOMAIN user_conversations =>
              LET log == user_conversations[u] IN
              /\ Len(log) = Min(N, 10)
              /\ \A i \in 1..Len(log) : log[i] = hist[u][N - Len(log) + i]
              /\ \A i \in 1..(Len(log) - 1) : log[i].timestamp < log[i + 1].timestamp

\* C2 witness: twelve asks of one user, whose log holds the last ten of them.
C2_Witness ==
    \E u \in DOMAIN user_conversations :
        /\ Len(hist[u]) = 12
        /\ Len(user_conversations[u]) = 10
        /\ user_conversations[u][1] = hist[u][3]
        /\ user_conversations[u][10] = hist[u][12]

\* The last event of a call that has yielded one.
LastEvent(c) == c.events[Len(c.events)]

IsStream(c) == c.kind \in {"route", "service"}

\* C3: the memory is only changed by a clear or in the step in which a call ends
\* with a successful model response (a success result, a complete event): a call
\* whose data fetch or model invocation fails leaves the mapping as it was.
C3_MutationOnlyAfterSuccess ==
    [][ user_conversations' # user_conversations =>
           \/ \E s \in Slots, u \in AskUserIds : ClearUserMemory(s, u)
           \/ \E s \in Slots :
                 /\ calls'[s] # calls[s]
                 /\ calls'[s].pc = "done"
                 /\ \/ calls'[s].kind = "ask" /\ Succeeded(calls'[s].result)
                    \/ IsStream(calls'[s]) /\ LastEvent(calls'[s]).event = "complete"
      ]_vars

\* C4: a finished stream call with a well-formed user_id, whose data fetch and
\* model generation both succeeded, has exactly one complete event, as its last
\* event, no error event, and a status event before the complete event.
C4_SuccessfulStreamCompletes ==
    \A s \in Slots :
        LET c == calls[s] IN
        ( /\ IsStream(c)
          /\ c.pc = "done"
          /\ Len(c.user_id) >= 10
          /\ c.db_calls = 1 /\ ~c.fetch_failed
          /\ c.llm_calls = 1 /\ ~c.model_failed )
        => LET n == Len(c.events) IN
           /\ n > 0
           /\ c.events[n].event = "complete"
           /\ \A i \in 1..(n - 1) : c.events[i].event \notin {"complete", "error"}
           /\ \E i \in 1..(n - 1) : c.events[i].event = "status"

\* C5: in the events of a stream call, an error or complete event is the last
\* event: at most one of the two is emitted, never both, nothing follows it (so
\* nothing compensates tokens delivered before an error), and the call has ended.
C5_TerminalEventIsLast ==
    \A s \in Slots :
        LET c == calls[s] IN
        IsStream(c) =>
            /\ \A i \in 1..Len(c.events) :
                  c.events[i].event \in {"error", "complete"} => i = Len(c.events)
            /\ \A i \in 1..Len(c.events) :
                  c.events[i].event \in {"error", "complete"} => c.pc = "done"

\* C5 witness: a stream that delivered a token and then ended with an error.
C5_Witness ==
    \E s \in Slots :
        /\ IsStream(calls[s])
        /\ Len(calls[s].events) >= 2
        /\ LastEvent(calls[s]).event = "error"
        /\ \E i \in 1..(Len(calls[s].events) - 1) : calls[s].events[i].event = "token"

\* C6: an ask whose user_id is empty or shorter than ten characters is answered
\* with the validation error (status 400), makes no data-access call and no model
\* call, and leaves the memory as it was.
C6_InvalidUserIdRejected ==
    [][ \A s \in Slots, u \in AskUserIds :
           ( /\ u = "" \/ Len(u) < 10
             /\ calls'[s].kind = "ask" /\ calls'[s].user_id = u
             /\ \E q \in Questions, f \in Faults, r \in Responses \cup {Plain} :
                   QueryAi(s, u, q, f, r) )
           => /\ calls'[s].status = 400
              /\ ~Succeeded(calls'[s].result)
              /\ calls'[s].db_calls = 0
              /\ calls'[s].llm_calls = 0
              /\ user_conversations' = user_conversations
      ]_vars

\* C6 witness: an ask with the empty user_id was rejected while logs were stored.
C6_Witness ==
    /\ calls["s1"].kind = "ask"
    /\ calls["s1"].user_id = ""
    /\ calls["s1"].status = 400
    /\ \E u \in DOMAIN user_conversations : Len(user_conversations[u]) > 0

\* C7: every ask with an accepted user_id returns a result: a failure of the data
\* fetch, of the prompt composition or of the model gives {success: false, error},
\* and a success result is only returned when none of the three failed.
C7_AskNeverRaises ==
    \A s \in Slots :
        LET c == calls[s] IN
        (c.kind = "ask" /\ c.status # 400) =>
            /\ "success" \in DOMAIN c.result
            /\ c.fault # "none" =>
                  /\ DOMAIN c.result = {"success", "error"}
                  /\ c.result.success = FALSE
            /\ Succeeded(c.result) =>
                  /\ c.fault = "none"
                  /\ c.db_calls = 1
                  /\ c.llm_calls = 1
                  /\ DOMAIN c.result = {"success", "response", "data_summary"}

\* C7 witness: an ask whose model invocation failed returned a failure result.
C7_Witness ==
    \E s \in Slots :
        /\ calls[s].kind = "ask"
        /\ calls[s].fault = "model"
        /\ calls[s].result = Failure("model")

\* C8: clear on a user without a log returns false and changes nothing; on a user
\* with a log it returns true and removes that log and nothing else, so the next
\* read of the log starts empty and a second clear returns false.
C8_ClearSemantics ==
    [][ \A s \in Slots, u \in AskUserIds :
           ( /\ calls'[s].kind = "clear" /\ calls'[s].user_id = u
             /\ ClearUserMemory(s, u) ) =>
              IF u \in DOMAIN user_conversations
              THEN /\ calls'[s].result = TRUE
                   /\ DOMAIN user_conversations' = DOMAIN user_conversations \ {u}
                   /\ \A v \in DOMAIN user_conversations' :
                         user_conversations'[v] = user_conversations[v]
                   /\ BuildPromptStore(user_conversations', u)[u] = <<>>
                   /\ ClearReturn(user_conversations', u) = FALSE
              ELSE /\ calls'[s].result = FALSE
                   /\ user_conversations' = user_conversations
      ]_vars

\* C8 witness: a clear returned true, the user's log is gone and another is kept.
C8_Witness ==
    \E s \in Slots :
        /\ calls[s].kind = "clear"
        /\ calls[s].result = TRUE
        /\ calls[s].user_id \notin DOMAIN user_conversations
        /\ DOMAIN user_conversations # {}

\* C9: the clear route, run for a user who has stored exchanges, removes that
\* user's log from user_conversations and ends without an error response.
C9_ClearRouteClears ==
    [][ \A s \in Slots, u \in ValidUserIds :
           ( /\ ClearMemoryRoute(s, u)
             /\ u \in DOMAIN user_conversations
             /\ user_conversations[u] # <<>> )
           => /\ u \notin DOMAIN user_conversations'
              /\ calls'[s].status = 200
      ]_vars

\* The call has ended and its model responded: an ask that succeeded, a stream
\* whose model was invoked and did not fail.
ModelResponded(c) ==
    /\ c.pc = "done"
    /\ \/ c.kind = "ask" /\ c.status = 200
       \/ IsStream(c) /\ c.llm_calls = 1 /\ ~c.model_failed

\* The answer such a call has to store.
AnswerOf(c) ==
    IF c.kind = "ask" THEN c.result.response
    ELSE IF c.kind = "route" THEN Strip(c.full_response)
    ELSE Strip(c.response)

\* C10: when asks and streams of a user interleave and no call clears, the log is
\* the last ten exchanges stored, in the order they were stored (only the oldest
\* are evicted), and every call whose model responded has its exchange among the
\* exchanges stored (none is lost).
C10_NoLostExchange ==
    /\ \A u \in DOMAIN user_conversations :
          user_conversations[u] = LastN(hist[u], 10)
    /\ \A s \in Slots :
          ModelResponded(calls[s]) =>
              \E i \in 1..Len(hist[calls[s].user_id]) :
                  /\ hist[calls[s].user_id][i].question = calls[s].query
                  /\ hist[calls[s].user_id][i].answer = AnswerOf(calls[s])
                  /\ hist[calls[s].user_id][i].timestamp >= calls[s].at

\* C10 witness: an ask of a user stored its exchange while a stream of the same
\* user was open, the stream then stored its own, and the full log kept both.
C10_Witness ==
    \E s \in Slots, t \in Slots :
        /\ IsStream(calls[s]) /\ ModelResponded(calls[s])
        /\ calls[t].kind = "ask" /\ ModelResponded(calls[t])
        /\ calls[s].user_id = calls[t].user_id
        /\ calls[s].at <= calls[t].at
        /\ LET log == user_conversations[calls[s].user_id] IN
           /\ Len(log) = 10
           /\ log[9].timestamp = calls[t].at
           /\ log[10].answer = AnswerOf(calls[s])
           /\ log[10].timestamp > calls[t].at

\* The concatenation of the contents of the token events, in order.
RECURSIVE ConcatTokens(_)
ConcatTokens(events) ==
    IF events = <<>> THEN <<>>
    ELSE (IF Head(events).event = "token" THEN Head(events).data ELSE <<>>)
             \o ConcatTokens(Tail(events))

\* The step completes the stream call of slot s with a complete event.
Completes(s) ==
    /\ IsStream(calls'[s])
    /\ calls'[s] # calls[s]
    /\ calls'[s].pc = "done"
    /\ LastEvent(calls'[s]).event = "complete"

\* C11: when a stream call emits complete, the answer it has just appended to
\* the user's log equals the full_response of the complete event, and that
\* equals the concatenation of the call's token contents, trimmed.
C11_StoredAnswerIsFullResponse ==
    [][ \A s \in Slots :
           Completes(s) =>
              LET c    == calls'[s]
                  log  == user_conversations'[c.user_id]
                  full == LastEvent(c).data[1]
              IN  /\ full = Strip(ConcatTokens(c.events))
                  /\ log[Len(log)].answer = full
      ]_vars

\* The completion the model produced for a stream call: what llm.invoke returned,
\* or the fragments of the incremental API put together.
ModelOutput(c) == IF c.kind = "service" THEN c.response ELSE c.full_response

\* C12: the step in which a stream completes changes the memory exactly as a
\* successful ask with the same user_id, question and model output changes it
\* from the same store (same question and answer appended, same eviction), and
\* a stream step before that changes the memory at most as the ask's own prompt
\* composition does, which does not change what the ask leaves behind.
C12_StreamStoresAsAsk ==
    [][ \A s \in Slots :
           (IsStream(calls'[s]) /\ calls'[s] # calls[s]) =>
              LET c == calls'[s]
                  AskStore(uc) == ask_question(uc, clock, c.user_id, c.query,
                                               "none", ModelOutput(c)).store
              IN  IF Completes(s)
                  THEN user_conversations' = AskStore(user_conversations)
                  ELSE \/ user_conversations' = user_conversations
                       \/ /\ user_conversations' =
                                BuildPromptStore(user_conversations, c.user_id)
                          /\ AskStore(user_conversations') =
                                AskStore(user_conversations)
      ]_vars

\* C12 witness: a service stream whose completion had doubled blanks completed on
\* a full log, so its append evicted, and its answer is the last one stored.
C12_Witness ==
    \E s \in Slots :
        /\ calls[s].kind = "service"
        /\ calls[s].pc = "done"
        /\ LastEvent(calls[s]).event = "complete"
        /\ calls[s].response = Messy
        /\ Len(hist[calls[s].user_id]) > 10
        /\ LET log == user_conversations[calls[s].user_id] IN
           /\ Len(log) = 10
           /\ log[10].answer = Strip(Messy)
           /\ log[10].timestamp >= calls[s].at

\* The log build_prompt read in the ask that the slot holds, when asks run one
\* after the other: the log now, without the exchange the ask itself stored.
LogBefore(c) ==
    IF Succeeded(c.result)
    THEN LastN(SubSeq(hist[c.user_id], 1, Len(hist[c.user_id]) - 1), MaxExchanges)
    ELSE user_conversations[c.user_id]

\* C13: the history in the prompt of an ask renders at most the last three
\* exchanges of the user's log (at most six Human:/AI: lines), in log order, and
\* the history section with its header is absent when the log is empty.
C13_HistoryWindow ==
    \A s \in Slots :
        LET c == calls[s] IN
        (c.kind = "ask" /\ c.prompt.composed) =>
            /\ Len(c.prompt.history) <= 6
            /\ c.prompt.history = HistoryLines(LastN(LogBefore(c), 3))
            /\ c.prompt.header = (LogBefore(c) # <<>>)

\* How many elements of a sequence equal x.
RECURSIVE Count(_, _)
Count(seq, x) ==
    IF seq = <<>> THEN 0
    ELSE (IF Head(seq) = x THEN 1 ELSE 0) + Count(Tail(seq), x)

\* The contact ids a note of user_id refers to that exist and belong to user_id.
ValidRefs(note, user_id) ==
    {id \in {note.contact_ids[i] : i \in 1..Len(note.contact_ids)} :
        \E k \in 1..Len(ContactsTable) :
            ContactsTable[k].id = id /\ ContactsTable[k].user_id = user_id}

\* How many of those contacts are called name.
ValidNamed(note, user_id, name) ==
    Cardinality({k \in 1..Len(ContactsTable) :
                    /\ ContactsTable[k].id \in ValidRefs(note, user_id)
                    /\ ContactsTable[k].name = name})

\* C14: in the data an ask fetched, the related_contacts of every note are
\* exactly the names of the contacts that the note's contact ids refer to and
\* that belong to the same user: ids that do not exist or are another user's
\* give no name, and there are no more names than valid ids referred to.
C14_RelatedContacts ==
    \A s \in Slots :
        LET c == calls[s] IN
        (c.kind = "ask" /\ c.data.fetched) =>
            \A i \in 1..Len(c.data.notes) :
                LET note == c.data.notes[i] IN
                /\ Len(note.related_contacts) = Cardinality(ValidRefs(note, c.user_id))
                /\ \A k \in 1..Len(ContactsTable) :
                      Count(note.related_contacts, ContactsTable[k].name)
                          = ValidNamed(note, c.user_id, ContactsTable[k].name)

\* C14 witness: an ask fetched a note that refers to a contact of another user,
\* to an id that does not exist and to one of its own contacts twice.
C14_Witness ==
    \E s \in Slots :
        /\ calls[s].kind = "ask"
        /\ calls[s].data.fetched
        /\ calls[s].user_id = U2
        /\ \E i \in 1..Len(calls[s].data.notes) :
              /\ calls[s].data.notes[i].contact_ids = <<3, 3, 2, 98>>
              /\ calls[s].data.notes[i].related_contacts = <<"Cy">>

\* C15: while an ask is waiting on its data-access or model call, a stream of
\* another user that is suspended at a yield can take its next step; and while a
\* stream is waiting on its data-access call, an ask of another user can start.
C15_NoCrossUserBlocking ==
    \A s \in Slots, t \in Slots :
        (s # t /\ Waiting(s)) =>
            /\ ( /\ calls[s].kind = "ask"
                 /\ IsStream(calls[t]) /\ Running(t)
                 /\ calls[t].user_id # calls[s].user_id )
               => ENABLED LoopStreamStep(t)
            /\ ( /\ IsStream(calls[s])
                 /\ ~Running(t) /\ budget > 0
                 /\ calls[s].user_id # U2 )
               => ENABLED AskEnter(t, U2, "q1")

\* The step admits a new call into slot s.
Admits(s) ==
    \/ \E u \in UserIds, q \in Questions, f \in AskFaults : QueryAi(s, u, q, f, Messy)
    \/ \E u \in ValidUserIds : ClearUserMemory(s, u)
    \/ ClearMemoryRoute(s, U1)
    \/ \E u \in RouteStreamUserIds, q \in Questions : StreamBegin(s, u, q)
    \/ \E u \in SvcStreamUserIds, q \in Questions, f \in Faults, r \in Responses :
           SvcStreamBegin(s, u, q, f, r)

\* C16: once the consumer of a stream has stopped pulling, the call is not
\* continued: no event is added to its sequence, the model is not invoked or
\* read for it again, and its slot only changes when a new call is admitted.
C16_NoWorkAfterCancel ==
    [][ \A s \in Slots :
           (calls[s].pc = "cancelled" /\ calls'[s] # calls[s]) => Admits(s)
      ]_vars

\* C16 witness: consumers stopped pulling after the first token, one from a
\* service stream with a word left to yield, one from a route stream whose
\* model had not ended.
C16_Witness ==
    \E s \in Slots, t \in Slots :
        /\ calls[s].pc = "cancelled" /\ calls[s].kind = "service"
        /\ calls[s].tokens = 1 /\ calls[s].words # <<>>
        /\ calls[t].pc = "cancelled" /\ calls[t].kind = "route"
        /\ calls[t].tokens = 1 /\ calls[t].llm_calls = 1

IsDataLoaded(ev) ==
    ev.event = "status" /\ ev.data # "processing" /\ ev.data # "thinking"

\* C17: a stream event sequence that contains a complete event is
\* status(processing), status(data_loaded), status(thinking), then token events
\* only, then the complete event as the last one.
C17_EventOrder ==
    \A s \in Slots :
        LET c == calls[s] IN
        (IsStream(c) /\ \E i \in 1..Len(c.events) : c.events[i].event = "complete") =>
            LET n == Len(c.events) IN
            /\ n >= 4
            /\ c.events[1] = Status("processing")
            /\ IsDataLoaded(c.events[2])
            /\ c.events[3] = Status("thinking")
            /\ \A i \in 4..(n - 1) : c.events[i].event = "token"
            /\ c.events[n].event = "complete"

\* C18: a stream call whose data fetch failed has ended with an error event as
\* its only terminal event, has emitted no status(data_loaded), no
\* status(thinking), no token and no complete event, and has not invoked the model.
C18_FetchFailureEndsStream ==
    \A s \in Slots :
        LET c == calls[s] IN
        (IsStream(c) /\ c.fetch_failed) =>
            /\ c.pc = "done"
            /\ c.llm_calls = 0
            /\ c.tokens = 0
            /\ LastEvent(c).event = "error"
            /\ \A i \in 1..(Len(c.events) - 1) : c.events[i] = Status("processing")

\* C18 witness: a route stream and a service stream whose data fetch failed.
C18_Witness ==
    \E s \in Slots, t \in Slots :
        /\ calls[s].kind = "route" /\ calls[s].fetch_failed
        /\ calls[s].events = <<Status("processing"), Error("Failed to load user data")>>
        /\ calls[t].kind = "service" /\ calls[t].fetch_failed
        /\ Len(calls[t].events) = 1

\* C19: the step of a stream that composes the prompt (build_prompt, then the
\* model stream is opened) leaves the memory as it was, including which
\* user_ids have a log.
C19_BuildPromptNoSideEffect ==
    [][ \A s \in Slots :
           (calls[s].pc = "thinking" /\ calls'[s].pc = "generating") =>
              /\ user_conversations' = user_conversations
              /\ DOMAIN user_conversations' = DOMAIN user_conversations
      ]_vars

\* The calls that are inside get_user_data.
InGetUserData == {s \in Slots : calls[s].pc = "in_get_user_data"}

\* C20: the open database connections are exactly one for each call that is
\* inside get_user_data: when get_user_data has returned or failed its
\* connection is closed, so none stays open across calls, and no connection is
\* held by two calls.
C20_ConnectionScopedPerCall ==
    db_conns = Cardinality(InGetUserData)

\* C20 witness: an ask ended on a query error, a stream is inside get_user_data,
\* and the only open connection is the one of that stream.
C20_Witness ==
    \E s \in Slots, t \in Slots :
        /\ calls[s].kind = "ask" /\ calls[s].pc = "done" /\ calls[s].fault = "fetch"
        /\ calls[t].kind = "route" /\ calls[t].pc = "in_get_user_data"
        /\ db_conns = 1

\* C21: when a stream whose model responded ends while its user has no log (a
\* clear ran after the prompt was composed), it ends with a complete event and
\* its exchange is the only entry of a fresh log.
C21_ClearDuringStream ==
    [][ \A s \in Slots :
           ( /\ IsStream(calls[s])
             /\ calls[s].pc \in {"generating", "token"}
             /\ calls'[s].pc = "done"
             /\ ~calls'[s].model_failed
             /\ ~HasLog(user_conversations, calls[s].user_id) )
           => LET c == calls'[s] IN
              /\ LastEvent(c).event = "complete"
              /\ HasLog(user_conversations', c.user_id)
              /\ Len(user_conversations'[c.user_id]) = 1
              /\ user_conversations'[c.user_id][1].question = c.query
              /\ user_conversations'[c.user_id][1].answer = AnswerOf(c)
      ]_vars


\* The token events a stream call has delivered.
TokensDelivered(c) ==
    Cardinality({i \in DOMAIN c.events : c.events[i].event = "token"})

\* The step puts an exchange into the log of user_id u.
LogGains(u) ==
    /\ HasLog(user_conversations', u)
    /\ user_conversations'[u] # <<>>
    /\ \/ ~HasLog(user_conversations, u)
       \/ user_conversations'[u] # user_conversations[u]

\* C22: a step of a stream call puts an exchange into its user's log only when
\* it is the step that delivers the complete event, after every token event
\* (every word of the response for the service stream) has been delivered;
\* the step in which the consumer abandons the stream changes no log.
C22_AppendOnlyAfterTokens ==
    [][ \A s \in Slots :
           (IsStream(calls'[s]) /\ calls'[s] # calls[s])
           => LET c == calls'[s] IN
              /\ LogGains(c.user_id)
                 => /\ Completes(s)
                    /\ TokensDelivered(c) = c.tokens
                    /\ c.kind = "service"
                       => /\ c.words = <<>>
                          /\ TokensDelivered(c) = Len(Split(c.response))
              /\ c.pc = "cancelled"
                 => user_conversations' = user_conversations
      ]_vars

\* A stream abandoned after a token event, with nothing stored since it began.
C22_Witness ==
    \E s \in Slots :
        /\ IsStream(calls[s])
        /\ calls[s].pc = "cancelled"
        /\ TokensDelivered(calls[s]) >= 1
        /\ clock = calls[s].at
        /\ HasLog(user_conversations, calls[s].user_id)
        /\ \A i \in DOMAIN user_conversations[calls[s].user_id] :
               user_conversations[calls[s].user_id][i].timestamp < calls[s].at


\* The user_ids whose entry of the Memory Store differs across the step.
TouchedUsers ==
    {v \in DOMAIN user_conversations \cup DOMAIN user_conversations' :
        \/ HasLog(user_conversations, v) # HasLog(user_conversations', v)
        \/ /\ HasLog(user_conversations, v)
           /\ HasLog(user_conversations', v)
           /\ user_conversations'[v] # user_conversations[v]}

\* Slot s holds, after the step, a call of user_id u that has just moved or
\* has just returned (a repeated call can leave the same record behind).
ActsFor(s, u) ==
    /\ calls'[s].kind # "none"
    /\ calls'[s].user_id = u
    /\ calls'[s] # calls[s] \/ calls'[s].pc = "done"

\* C23: a step touches the log of at most one user_id, and that user_id is the
\* one of the ask, stream or clear call that took the step; the logs of all
\* other user_ids, and whether they exist, stay as they were.
C23_OtherUsersUntouched ==
    [][ /\ Cardinality(TouchedUsers) <= 1
        /\ \A v \in TouchedUsers : \E s \in Slots : ActsFor(s, v)
        /\ \A s \in Slots :
              calls'[s] # calls[s] /\ calls'[s].kind # "none"
              => TouchedUsers \subseteq {calls'[s].user_id}
      ]_vars

\* One user's log has just been deleted by a clear while the other user's log
\* still holds its exchanges.
C23_Witness ==
    \E s \in Slots :
        /\ calls[s].kind = "clear"
        /\ calls[s].result
        /\ calls[s].user_id = U1
        /\ ~HasLog(user_conversations, U1)
        /\ HasLog(user_conversations, U2)
        /\ Len(user_conversations[U2]) = MaxAppends

====
